---- MODULE Spec2Model ----
(***************************************************************************)
(* A model of event_bus/bus.py: the EventBus registry (a defaultdict from  *)
(* event name to a set of callables), its operations, and the call stack   *)
(* of a single-threaded program that uses it.  Subscribers are arbitrary   *)
(* user code: an invoked callable may return, raise, or call back into the *)
(* bus before doing either.                                                *)
(***************************************************************************)
EXTENDS Naturals, Sequences, FiniteSets, TLC

\* ------------------------------------------------------------ bounds
\* Calls of the bus in one run, by the main program and by callables together.
MaxOps == 4

\* ------------------------------------------------------------ inputs
Events == {"x", "y"}
\* Callables; f1 and f2 are two distinct functions declared with the same name.
Funcs == {"f1", "f2", "g1"}
Names == {"f", "g"}
\* func.__name__
Name(func) == IF func \in {"f1", "f2"} THEN "f" ELSE "g"
\* (*args, **kwargs) of a call: none, or one positional argument.
NoArgs == << >>
ArgTuples == {NoArgs, <<"a">>}
\* What a plain callable may return.
Results == {"r1", "r2"}
\* func_names of emit_only: a str, or a list of str.  "gf" is the name of no
\* callable; the names "g" and "f" are its characters.
FuncNamesInputs ==
    {[isStr |-> TRUE, str |-> n, list |-> << >>] : n \in {"f", "gf"}}
    \cup {[isStr |-> FALSE, str |-> "", list |-> l] :
            l \in {<< >>, <<"f">>, <<"gf">>, <<"g", "f">>}}
\* The functions the main program decorates with emit_after.
Decoratable == {"g1"}

None == [kind |-> "none"]

\* ------------------------------------------------------------ Python set
\* A set object is kept as the number of times it holds each callable; that the
\* number never exceeds one is what set.add provides.
EmptySet == [f \in Funcs |-> 0]
Members(s) == {f \in Funcs : s[f] > 0}

RECURSIVE SumOver(_, _)
SumOver(cnt, S) ==
    IF S = {} THEN 0
    ELSE LET k == CHOOSE k \in S : TRUE IN cnt[k] + SumOver(cnt, S \ {k})

\* len(s)
Len_(s) == SumOver(s, Funcs)

\* A list where a set was meant: add appends whether or not func is there.
SetAddAppend(s, func) == [s EXCEPT ![func] = @ + 1]
\* s.add(func)
SetAdd(s, func) == IF s[func] > 0 THEN s ELSE [s EXCEPT ![func] = 1]

\* The element left in place.
SetRemoveNothing(s, func) == s
\* s.remove(func)
SetRemove(s, func) == [s EXCEPT ![func] = IF @ > 0 THEN @ - 1 ELSE 0]

\* The orders in which iterating s may yield its elements.
Orders(s) ==
    {o \in [1..Len_(s) -> Funcs] :
        \A f \in Funcs : Cardinality({i \in 1..Len_(s) : o[i] = f}) = s[f]}

\* The callable added to a copy that is then stored in place of the set.
AddToCopy == FALSE
\* self._events[event].add(func) changes the stored set object itself.
AddInPlace == TRUE

\* ------------------------------------------------------------ defaultdict
\* A plain dict where the defaultdict was meant.
NoDefaultFactory == FALSE
\* self._events = defaultdict(set): a missing key has a default.
HasDefaultFactory == TRUE

\* The access stores a new empty set under name whether or not name is a key.
GetItemReset(ev, name) ==
    [ok |-> TRUE,
     ev |-> [k \in DOMAIN ev \cup {name} |->
                IF k = name THEN EmptySet ELSE ev[k]]]
\* self._events[name]: the mapping after the access (a missing key is inserted
\* with an empty set) and whether the access succeeds.
GetItem(ev, name) ==
    IF name \in DOMAIN ev THEN [ok |-> TRUE, ev |-> ev]
    ELSE IF HasDefaultFactory
    THEN [ok |-> TRUE,
          ev |-> [k \in DOMAIN ev \cup {name} |->
                     IF k = name THEN EmptySet ELSE ev[k]]]
    ELSE [ok |-> FALSE, ev |-> ev]

\* The mapping with no key.
EmptyDict == [k \in {} |-> EmptySet]

\* The callables under each event name, with none for a name that is no key.
Membership(ev) ==
    [e \in Events |-> IF e \in DOMAIN ev THEN ev[e] ELSE EmptySet]

\* ------------------------------------------------------------ subscribed_event_count
\* len(self._events): the number of event names.
KeyCount(ev) == Cardinality(DOMAIN ev)
\* event_counter[key] = len(values) for every item; sum(event_counter.values())
SubscribedEventCount(ev) ==
    LET event_counter == [key \in DOMAIN ev |-> Len_(ev[key])]
    IN  SumOver(event_counter, DOMAIN ev)

\* the event_count property
EventCount(ev) == SubscribedEventCount(ev)

\* ------------------------------------------------------------ remove_subscriber
RECURSIVE RemoveFirstLoop(_, _, _)
\* The loop with a break after the first match.
RemoveFirstLoop(copy, order, func_name) ==
    IF order = << >> THEN copy
    ELSE IF Name(Head(order)) = func_name THEN SetRemove(copy, Head(order))
    ELSE RemoveFirstLoop(copy, Tail(order), func_name)

RECURSIVE RemoveLoop(_, _, _)
\* for func in self.event_funcs(event):
\*     if func.__name__ == func_name: event_funcs_copy.remove(func)
RemoveLoop(copy, order, func_name) ==
    IF order = << >> THEN copy
    ELSE RemoveLoop(IF Name(Head(order)) = func_name
                      THEN SetRemove(copy, Head(order)) ELSE copy,
                    Tail(order), func_name)

\* An empty set is stored whatever the copy holds.
StoreEmpty(old, copy) == EmptySet
\* The copy is filtered and then dropped.
KeepStored(old, copy) == old
\* self._events[event] = event_funcs_copy
StoreBack(old, copy) == copy

\* The assignment made under every key of the mapping.
SetEveryItem(ev, event, s) == [k \in DOMAIN ev |-> s]
\* self._events[event] = ...: the mapping with the object s under event.
SetItem(ev, event, s) == [ev EXCEPT ![event] = s]

\* ------------------------------------------------------------ event_funcs
\* The generator event_funcs(name) returns.  Its body has not run when it is
\* "created"; the first next() evaluates self._events[name] and starts
\* iterating that set object.  live: the object iterated is still the one the
\* mapping stores under event (then obj is unused); otherwise obj is the object.
\* used is the size the set iterator saw when it was made.  first and added are
\* history: the set as it was at the first next(), and whether a callable has
\* been subscribed to event since.
NewGen(name) ==
    [state |-> "created", event |-> name, live |-> TRUE, obj |-> EmptySet,
     used |-> 0, yielded |-> EmptySet, first |-> EmptySet, added |-> FALSE]

NoGen == [state |-> "none", event |-> "x", live |-> TRUE, obj |-> EmptySet,
          used |-> 0, yielded |-> EmptySet, first |-> EmptySet, added |-> FALSE]

\* The set object a running generator iterates.
Iterated(g, ev) == IF g.live THEN ev[g.event] ELSE g.obj

Finished(g) == [g EXCEPT !.state = "done", !.live = TRUE, !.obj = EmptySet,
                         !.used = 0, !.yielded = EmptySet,
                         !.first = EmptySet, !.added = FALSE]

\* next() of a started generator: the set iterator raises when its set changed
\* size, stops when nothing is left, and otherwise yields any element not yet
\* yielded.
RunningNext(g, ev) ==
    LET cur == Iterated(g, ev)
        left == {f \in Funcs : cur[f] > g.yielded[f]}
    IN  IF Len_(cur) # g.used
        THEN {[gen |-> Finished(g), ev |-> ev, out |-> "raise",
               val |-> "RuntimeError"]}
        ELSE IF left = {}
        THEN {[gen |-> Finished(g), ev |-> ev, out |-> "stop", val |-> "none"]}
        ELSE {[gen |-> [g EXCEPT !.yielded[f] = @ + 1], ev |-> ev,
               out |-> "yield", val |-> f] : f \in left}

\* for func in self._events[name]: yield func
\* The possible results of one next(): the generator and mapping afterwards,
\* and what the caller gets ("yield" val, "stop", or "raise" val).
GenNext(g, ev) ==
    IF g.state = "created"
    THEN LET got == GetItem(ev, g.event)
         IN  IF got.ok
             THEN RunningNext([g EXCEPT !.state = "running",
                                        !.used = Len_(got.ev[g.event]),
                                        !.first = got.ev[g.event]],
                              got.ev)
             ELSE {[gen |-> Finished(g), ev |-> ev, out |-> "raise",
                    val |-> "KeyError"]}
    ELSE IF g.state = "running" THEN RunningNext(g, ev)
    ELSE {[gen |-> g, ev |-> ev, out |-> "stop", val |-> "none"]}

\* The body's first expression evaluated by the call itself.
EventFuncsEager(ev, name) == GetItem(ev, name).ev
\* event_funcs(name) is a generator function: calling it runs none of its body,
\* so the call leaves the mapping as it is.
EventFuncsCall(ev, name) == ev

\* The stored object changed in place: a generator iterating it stays on it.
StayOnStored(g, name, old) == g
\* The mapping's entry for name is replaced by another object: a generator
\* iterating the old object goes on iterating it.
Detach(g, name, old) ==
    IF g.state = "running" /\ g.live /\ g.event = name
    THEN [g EXCEPT !.live = FALSE, !.obj = old]
    ELSE g

\* ------------------------------------------------------------ emit, emit_only
\* What "x in s" accepts of a str s: the substrings of s that are names.
Substrings(s) == IF s = "gf" THEN <<"g", "f", "gf">> ELSE <<s>>
\* The str left as it is, and tested with "in" as a str.
LeaveFuncNames(func_names) ==
    IF func_names.isStr THEN Substrings(func_names.str) ELSE func_names.list
\* if isinstance(func_names, str): func_names = [func_names]
NormalizeFuncNames(func_names) ==
    IF func_names.isStr THEN <<func_names.str>> ELSE func_names.list

\* The filter inverted.
NotInFuncNames(func, func_names) ==
    \A i \in 1..Len(func_names) : func_names[i] # Name(func)
\* func.__name__ in func_names
InFuncNames(func, func_names) ==
    \E i \in 1..Len(func_names) : func_names[i] = Name(func)

\* The arguments dropped.
EmitDropsArgs(args) == NoArgs
\* func(*args, **kwargs): what emit and emit_only pass to a subscriber.
EmitPasses(args) == args

\* The loop wrapped in a try that swallows the failure.
EmitSwallows == TRUE
\* emit and emit_only have no try: a failure inside the loop leaves the loop.
EmitCatches == FALSE

\* The subscribers of an emit made during a dispatch put off: the call returns
\* at once.
EmitReturnsAtOnce == FALSE
\* emit runs its loop, and each func(*args, **kwargs) in it, within the call.
EmitRunsInCall == TRUE

\* ------------------------------------------------------------ emit_after
\* The call's arguments forwarded to the subscribers.
AfterForwardsArgs(args) == args
\* self.emit(event): the wrapper emits with no arguments.
AfterEmitArgs(args) == NoArgs

\* return returned
AfterReturns(returned) == returned

\* The emit in a finally clause.
AfterEmitsAnyway == TRUE
\* returned = func(*args, **kwargs) is not guarded: a failure of func leaves
\* the wrapper before self.emit(event).
AfterEmitsOnFailure == FALSE

\* ------------------------------------------------------------ state
VARIABLES
    _events,        \* self._events: event name -> set object
    stack,          \* the call stack above the main program, innermost last
    exc,            \* the exception propagating up the stack, or "none"
    gen,            \* a generator the main program got from event_funcs
    ret,            \* what the main program's last call returned
    raised,         \* the exception the main program's last call raised
    done,           \* the emit / emit_only call that ended last
    afterDone,      \* the call of an emit_after-decorated function that ended last
    lastRm,         \* the remove_subscriber call that ended last
    ops,            \* the number of calls of the bus made so far
    twice,          \* history: callables subscribed to e again while registered
    everSubscribed, \* history: the event names ever subscribed to
    removed,        \* history: names removed from e and not subscribed to e since
    kept,           \* history: the last remove_subscriber on e whose name has not
                    \* been subscribed to e since, and what it left under e
    counted,        \* history: a count kept call by call, +1 for an on(e)(f) with
                    \* f not under e, -k for a remove_subscriber(e, n) with k
                    \* callables named n under e
    registered      \* history: the callables under each name, kept call by call:
                    \* on(e)(f) puts f under e, remove_subscriber(e, n) takes
                    \* those named n from under e, nothing else changes it

vars == <<_events, stack, exc, gen, ret, raised, done, afterDone, lastRm,
          ops, twice, everSubscribed, removed, kept, counted, registered>>
hist == <<twice, everSubscribed, removed, kept, counted, registered>>

\* def __init__(self): self._events = defaultdict(set)
Init ==
    /\ _events = EmptyDict
    /\ stack = << >>
    /\ exc = "none"
    /\ gen = NoGen
    /\ ret = None
    /\ raised = "none"
    /\ done = None
    /\ afterDone = None
    /\ lastRm = None
    /\ ops = 0
    /\ twice = [e \in Events |-> {}]
    /\ everSubscribed = {}
    /\ removed = [e \in Events |-> {}]
    /\ kept = [e \in Events |-> None]
    /\ counted = 0
    /\ registered = [e \in Events |-> {}]

Top == stack[Len(stack)]
Pop(st) == SubSeq(st, 1, Len(st) - 1)
\* The main program is running and may call the bus.
AtMain == stack = << >> /\ exc = "none" /\ ops < MaxOps
\* The main program or a callable is running and may call the bus.  The
\* callables that call the bus are those a dispatch of the main program invokes,
\* not those run under an emit_after wrapper.
CanCall ==
    /\ exc = "none"
    /\ ops < MaxOps
    /\ IF stack = << >> THEN TRUE
       ELSE Top.kind = "user" /\ stack[1].kind # "after"

\* A call of the bus: new tells, for on, that func was not under event.  In the
\* note a dispatch keeps of the call, at is how many callables the dispatch had
\* called by then and, for an emit, ended, until and result tell that it has
\* ended, how many callables the dispatch had called by then, and how it ended.
Call(op, event, arg, new) ==
    [op |-> op, event |-> event, arg |-> arg, new |-> new, at |-> 0,
     ended |-> FALSE, until |-> 0, result |-> None]

\* The stack once the running callable has called the bus: every dispatch
\* below it has been re-entered, and notes the call.
Entered(st, call) ==
    [i \in 1..Len(st) |->
        IF st[i].kind = "emit"
        THEN [st[i] EXCEPT !.reentered = TRUE,
                           !.calls = Append(@, [call EXCEPT
                                                  !.at = Len(st[i].invoked)])]
        ELSE IF st[i].kind = "after"
        THEN [st[i] EXCEPT !.reentered = TRUE]
        ELSE st[i]]

DetachAll(st, name, old) ==
    [i \in 1..Len(st) |->
        IF st[i].kind = "emit"
        THEN [st[i] EXCEPT !.gen = Detach(@, name, old)]
        ELSE st[i]]

\* The main program keeps no generator across a dispatch it starts.
Dropped == IF stack = << >> THEN NoGen ELSE gen

\* A record of an earlier call is dropped when the main program calls again.
Keep(v) == IF stack = << >> THEN None ELSE v
KeepRaised == IF stack = << >> THEN "none" ELSE raised

\* A call fails at once: in the main program the failure is its outcome, in a
\* callable it starts to propagate.
Fails(e, call) ==
    /\ exc' = IF stack = << >> THEN "none" ELSE e
    /\ raised' = IF stack = << >> THEN e ELSE raised
    /\ stack' = Entered(stack, call)

\* ------------------------------------------------------------ on
\* on(event)(func): self._events[event].add(func); returns the wrapper.
On(event, func) ==
    /\ CanCall
    /\ ops' = ops + 1
    /\ LET got == GetItem(_events, event)
       IN  IF got.ok
           THEN /\ _events' = [got.ev EXCEPT ![event] = SetAdd(@, func)]
                /\ LET entered == Entered(stack,
                                           Call("on", event, func,
                                                got.ev[event][func] = 0))
                   IN  stack' = IF AddInPlace THEN entered
                                ELSE DetachAll(entered, event, got.ev[event])
                /\ exc' = exc
                /\ raised' = KeepRaised
                /\ ret' = IF stack = << >>
                          THEN [kind |-> "on", event |-> event,
                                val |-> <<"wrapper", func>>,
                                again |-> got.ev[event][func] > 0,
                                lenBefore |-> Len_(got.ev[event]),
                                lenAfter |-> Len_(_events'[event]),
                                countBefore |-> EventCount(got.ev),
                                countAfter |-> EventCount(_events')]
                          ELSE ret
                /\ twice' = IF got.ev[event][func] > 0
                            THEN [twice EXCEPT ![event] = @ \cup {func}]
                            ELSE twice
                /\ everSubscribed' = everSubscribed \cup {event}
                /\ removed' = [removed EXCEPT ![event] = @ \ {Name(func)}]
                /\ kept' = IF kept[event].kind = "kept"
                              /\ kept[event].name = Name(func)
                           THEN [kept EXCEPT ![event] = None]
                           ELSE kept
                /\ counted' = IF func \in Members(Membership(_events)[event])
                              THEN counted ELSE counted + 1
                /\ registered' = [registered EXCEPT ![event] = @ \cup {func}]
           ELSE /\ Fails("KeyError", Call("on", event, func, FALSE))
                /\ UNCHANGED <<_events, hist>>
                /\ ret' = Keep(ret)
    /\ done' = Keep(done)
    /\ afterDone' = Keep(afterDone)
    /\ lastRm' = Keep(lastRm)
    /\ gen' = IF gen.state = "running" /\ gen.event = event
                 /\ func \notin Members(Membership(_events)[event])
              THEN [gen EXCEPT !.added = TRUE]
              ELSE gen

\* ------------------------------------------------------------ remove_subscriber
RemoveSubscriber(event, func_name) ==
    /\ CanCall
    /\ ops' = ops + 1
    /\ LET got == GetItem(_events, event)
       IN  IF got.ok
           THEN \E order \in Orders(got.ev[event]) :
                LET old == got.ev[event]
                    event_funcs_copy == RemoveLoop(old, order, func_name)
                    new == SetItem(got.ev, event,
                                   StoreBack(old, event_funcs_copy))
                IN  /\ _events' = new
                    /\ stack' = DetachAll(Entered(stack,
                                                  Call("remove_subscriber",
                                                       event, func_name, FALSE)),
                                          event, old)
                    /\ gen' = Detach(gen, event, old)
                    /\ exc' = exc
                    /\ raised' = KeepRaised
                    /\ lastRm' = [kind |-> "remove", event |-> event,
                                  name |-> func_name,
                                  seen |-> event \in DOMAIN _events,
                                  stored |-> event \in DOMAIN new,
                                  before |-> Membership(_events),
                                  after |-> Membership(new)]
                    /\ twice' = [twice EXCEPT ![event] =
                                    {f \in @ : Name(f) # func_name}]
                    /\ removed' = [removed EXCEPT ![event] = @ \cup {func_name}]
                    /\ kept' = [kept EXCEPT ![event] =
                                   [kind |-> "kept", name |-> func_name,
                                    others |-> {f \in Members(old) :
                                                   Name(f) # func_name}]]
                    /\ everSubscribed' = everSubscribed
                    /\ counted' =
                         counted
                         - Cardinality({f \in Members(Membership(_events)[event]) :
                                          Name(f) = func_name})
                    /\ registered' = [registered EXCEPT ![event] =
                                         {f \in @ : Name(f) # func_name}]
           ELSE /\ Fails("KeyError",
                         Call("remove_subscriber", event, func_name, FALSE))
                /\ UNCHANGED <<_events, gen, hist>>
                /\ lastRm' = Keep(lastRm)
    /\ ret' = Keep(ret)
    /\ done' = Keep(done)
    /\ afterDone' = Keep(afterDone)

\* ------------------------------------------------------------ reads
\* subscribed_event_count() and the event_count property, from the main program.
SubscribedEventCountCall ==
    /\ AtMain
    /\ ops' = ops + 1
    /\ \E op \in {"subscribed_event_count", "event_count"} :
         ret' = [kind |-> op, event |-> "",
                 pre |-> Membership(_events), keys |-> DOMAIN _events,
                 val |-> IF op = "event_count" THEN EventCount(_events)
                         ELSE SubscribedEventCount(_events)]
    /\ raised' = "none"
    /\ done' = None /\ afterDone' = None /\ lastRm' = None
    /\ UNCHANGED <<_events, stack, exc, gen, hist>>

\* event_func_names(name): [func.__name__ for func in self._events[name]]
EventFuncNames(name) ==
    /\ AtMain
    /\ ops' = ops + 1
    /\ LET got == GetItem(_events, name)
       IN  IF got.ok
           THEN /\ _events' = got.ev
                /\ \E order \in Orders(got.ev[name]) :
                     ret' = [kind |-> "event_func_names", event |-> name,
                             seen |-> name \in DOMAIN _events,
                             pre |-> Membership(_events),
                             keys |-> DOMAIN _events,
                             val |-> [i \in 1..Len(order) |-> Name(order[i])]]
                /\ raised' = "none"
           ELSE /\ _events' = _events
                /\ ret' = None
                /\ raised' = "KeyError"
    /\ done' = None /\ afterDone' = None /\ lastRm' = None
    /\ UNCHANGED <<stack, exc, gen, hist>>

\* event_funcs(name): returns a generator; nothing of its body runs yet.
EventFuncs(name) ==
    /\ AtMain
    /\ ops' = ops + 1
    /\ gen' = NewGen(name)
    /\ _events' = EventFuncsCall(_events, name)
    /\ ret' = [kind |-> "event_funcs", event |-> name,
               seen |-> name \in DOMAIN _events,
               pre |-> Membership(_events), keys |-> DOMAIN _events,
               val |-> "generator"]
    /\ raised' = "none"
    /\ done' = None /\ afterDone' = None /\ lastRm' = None
    /\ UNCHANGED <<stack, exc, hist>>

\* next() on the generator the main program holds.
GenStep ==
    /\ stack = << >> /\ exc = "none"
    /\ gen.state \in {"created", "running"}
    /\ \E r \in GenNext(gen, _events) :
         /\ gen' = r.gen
         /\ _events' = r.ev
         /\ ret' = [kind |-> "next", event |-> gen.event,
                    fresh |-> gen.event \notin DOMAIN _events,
                    started |-> gen.state = "created",
                    first |-> IF gen.state = "created"
                              THEN Membership(_events)[gen.event]
                              ELSE gen.first,
                    had |-> gen.yielded, added |-> gen.added,
                    pre |-> Membership(_events), keys |-> DOMAIN _events,
                    val |-> <<r.out, r.val>>]
         /\ raised' = IF r.out = "raise" THEN r.val ELSE "none"
    /\ done' = None /\ afterDone' = None /\ lastRm' = None
    /\ UNCHANGED <<stack, exc, ops, hist>>

\* ------------------------------------------------------------ frames
\* A call of emit (names unused) or emit_only in progress.  pre, gone, kept
\* and twice are history: the registrations, the names removed from event, what
\* the last removal on event left, and the callables subscribed to event more
\* than once, all as they were when the call started.  seen and keys: whether
\* event was a key, and the keys, when the call started; given: func_names as
\* the caller passed it; calls: the calls of the bus made while the call has
\* been in progress.
EmitFrame(op, event, args, names) ==
    [kind |-> "emit", op |-> op, event |-> event, args |-> args,
     names |-> names, given |-> None, gen |-> NewGen(event), invoked |-> << >>,
     reentered |-> FALSE, calls |-> << >>, failed |-> FALSE, failedAt |-> 0,
     seen |-> event \in DOMAIN _events, keys |-> DOMAIN _events,
     pre |-> Membership(_events), gone |-> removed[event],
     kept |-> kept[event],
     twice |-> twice[event]]

\* A callable running: a subscriber, or the function an emit_after wrapper calls.
UserFrame(func, args) ==
    [kind |-> "user", func |-> func, args |-> args]

\* The wrapper emit_after(event)(func) running.
AfterFrame(event, func, args) ==
    [kind |-> "after", event |-> event, func |-> func, args |-> args,
     phase |-> "func", returned |-> "None", funcFailed |-> FALSE,
     reentered |-> FALSE, log |-> << <<"call", func, args>> >>, emit |-> None]

\* What is kept of an emit / emit_only call when it ends.
DoneOf(fr, outcome) ==
    [kind |-> "emit", op |-> fr.op, event |-> fr.event, args |-> fr.args,
     names |-> fr.names, given |-> fr.given,
     invoked |-> fr.invoked, reentered |-> fr.reentered,
     calls |-> fr.calls,
     failed |-> fr.failed, failedAt |-> fr.failedAt, outcome |-> outcome,
     depth |-> Len(stack), seen |-> fr.seen,
     keys |-> fr.keys, keysPost |-> DOMAIN _events,
     pre |-> fr.pre, post |-> Membership(_events), gone |-> fr.gone,
     kept |-> fr.kept, twice |-> fr.twice]

\* The notes of a dispatch once the innermost emit in progress has ended as rec.
Noted(fr, rec) ==
    LET open == {i \in 1..Len(fr.calls) :
                   fr.calls[i].op = "emit" /\ ~fr.calls[i].ended}
    IN  IF open = {} THEN fr.calls
        ELSE LET last == CHOOSE i \in open : \A j \in open : j <= i
             IN  [fr.calls EXCEPT
                    ![last].ended = TRUE,
                    ![last].until = Len(fr.invoked),
                    ![last].result = [kind |-> "emit", outcome |-> rec.outcome,
                                      invoked |-> rec.invoked,
                                      were |-> rec.pre[rec.event]]]

\* The stack when its innermost frame, an emit, has ended as rec.
Ended(st, rec) ==
    LET rest == Pop(st)
    IN  [i \in 1..Len(rest) |->
            IF rest[i].kind = "emit"
            THEN [rest[i] EXCEPT !.calls = Noted(rest[i], rec)]
            ELSE IF rest[i].kind = "after" /\ i = Len(rest)
            THEN [rest[i] EXCEPT !.emit = rec]
            ELSE rest[i]]

\* The stack st whose innermost frame called a callable that failed.
MarkFailed(st) ==
    LET fr == st[Len(st)]
    IN  IF fr.kind = "emit"
        THEN [st EXCEPT ![Len(st)].failed = TRUE,
                        ![Len(st)].failedAt = Len(fr.invoked)]
        ELSE IF fr.kind = "after"
        THEN [st EXCEPT ![Len(st)].funcFailed = TRUE,
                        ![Len(st)].log = Append(@, <<"raise", fr.func, "None">>)]
        ELSE st

\* Whether the dispatch calls the callable the generator yielded.
Selected(fr, func) == fr.op = "emit" \/ InFuncNames(func, fr.names)

\* ------------------------------------------------------------ emit, emit_only
\* emit(event, *args, **kwargs); a callable that emits passes no arguments.
Emit(event, args) ==
    /\ CanCall
    /\ stack # << >> => args = NoArgs
    /\ ops' = ops + 1
    /\ stack' = IF EmitRunsInCall \/ stack = << >>
                THEN Append(Entered(stack, Call("emit", event, "", FALSE)),
                            EmitFrame("emit", event, args, << >>))
                ELSE Entered(stack, Call("emit", event, "", FALSE))
    /\ raised' = KeepRaised
    /\ ret' = Keep(ret) /\ done' = Keep(done)
    /\ afterDone' = Keep(afterDone) /\ lastRm' = Keep(lastRm)
    /\ gen' = Dropped
    /\ UNCHANGED <<_events, exc, hist>>

\* emit_only(event, func_names, *args, **kwargs)
EmitOnly(event, func_names, args) ==
    /\ AtMain
    /\ ops' = ops + 1
    /\ stack' = Append(stack,
                       [EmitFrame("emit_only", event, args,
                                  NormalizeFuncNames(func_names))
                          EXCEPT !.given = func_names])
    /\ raised' = KeepRaised
    /\ ret' = Keep(ret) /\ done' = Keep(done)
    /\ afterDone' = Keep(afterDone) /\ lastRm' = Keep(lastRm)
    /\ gen' = Dropped
    /\ UNCHANGED <<_events, exc, hist>>

\* One turn of "for func in self.event_funcs(event)" that gets a callable: the
\* dispatch calls it (emit_only: when its name is in func_names) or goes on.
EmitStep ==
    /\ exc = "none" /\ stack # << >> /\ Top.kind = "emit"
    /\ \E r \in GenNext(Top.gen, _events) :
         /\ r.out = "yield"
         /\ _events' = r.ev
         /\ LET n == Len(stack)
                passed == EmitPasses(Top.args)
                call == [func |-> r.val, args |-> passed]
                logged == IF n = 2 /\ stack[1].kind = "after"
                          THEN [stack EXCEPT ![1].log =
                                   Append(@, <<"invoke", r.val, passed>>)]
                          ELSE stack
            IN  stack' =
                  IF Selected(Top, r.val)
                  THEN Append([logged EXCEPT ![n].gen = r.gen,
                                             ![n].invoked = Append(@, call)],
                              UserFrame(r.val, passed))
                  ELSE [stack EXCEPT ![n].gen = r.gen]
    /\ UNCHANGED <<exc, gen, ret, raised, done, afterDone, lastRm, ops, hist>>

\* The loop is exhausted: the call returns.
EmitReturn ==
    /\ exc = "none" /\ stack # << >> /\ Top.kind = "emit"
    /\ \E r \in GenNext(Top.gen, _events) :
         /\ r.out = "stop"
         /\ _events' = r.ev
         /\ done' = [DoneOf(Top, "ok") EXCEPT !.post = Membership(r.ev),
                                               !.keysPost = DOMAIN r.ev]
         /\ stack' = Ended(stack, done')
    /\ UNCHANGED <<exc, gen, ret, raised, afterDone, lastRm, ops, hist>>

\* The generator raises (the set changed size, or the key is missing).
EmitIterFails ==
    /\ exc = "none" /\ stack # << >> /\ Top.kind = "emit"
    /\ \E r \in GenNext(Top.gen, _events) :
         /\ r.out = "raise"
         /\ _events' = r.ev
         /\ exc' = r.val
         /\ stack' = [stack EXCEPT ![Len(stack)].gen = r.gen]
    /\ UNCHANGED <<gen, ret, raised, done, afterDone, lastRm, ops, hist>>

\* An exception reaches the frame of emit / emit_only.
EmitUnwind ==
    /\ exc # "none" /\ stack # << >> /\ Top.kind = "emit"
    /\ IF EmitCatches
       THEN /\ exc' = "none"
            /\ UNCHANGED <<stack, done, raised>>
       ELSE /\ done' = DoneOf(Top, exc)
            /\ stack' = Ended(stack, done')
            /\ exc' = IF Len(stack) = 1 THEN "none" ELSE exc
            /\ raised' = IF Len(stack) = 1 THEN exc ELSE raised
    /\ UNCHANGED <<_events, gen, ret, afterDone, lastRm, ops, hist>>

\* ------------------------------------------------------------ callables
\* A subscriber returns to the dispatch that called it.
SubscriberReturn ==
    /\ exc = "none" /\ stack # << >> /\ Top.kind = "user"
    /\ stack[Len(stack) - 1].kind = "emit"
    /\ stack' = Pop(stack)
    /\ UNCHANGED <<_events, exc, gen, ret, raised, done, afterDone, lastRm, ops, hist>>

\* A callable raises.
UserRaise ==
    /\ exc = "none" /\ stack # << >> /\ Top.kind = "user"
    /\ exc' = "Error"
    /\ stack' = MarkFailed(Pop(stack))
    /\ UNCHANGED <<_events, gen, ret, raised, done, afterDone, lastRm, ops, hist>>

\* A bus call a callable made has failed, and the callable does not catch it.
UserUnwind ==
    /\ exc # "none" /\ stack # << >> /\ Top.kind = "user"
    /\ stack' = MarkFailed(Pop(stack))
    /\ UNCHANGED <<_events, exc, gen, ret, raised, done, afterDone, lastRm, ops, hist>>

\* ------------------------------------------------------------ emit_after
\* The main program calls wrapper(*args, **kwargs), the decorated form of func:
\* returned = func(*args, **kwargs)
Decorated(event, func, args) ==
    /\ AtMain
    /\ ops' = ops + 1
    /\ stack' = <<AfterFrame(event, func, args), UserFrame(func, args)>>
    /\ raised' = "none"
    /\ ret' = None /\ done' = None /\ afterDone' = None /\ lastRm' = None
    /\ gen' = Dropped
    /\ UNCHANGED <<_events, exc, hist>>

\* func returns r to the wrapper, which goes on to self.emit(event).
FuncReturn(r) ==
    /\ exc = "none" /\ stack # << >> /\ Top.kind = "user"
    /\ stack[Len(stack) - 1].kind = "after"
    /\ LET w == stack[Len(stack) - 1]
       IN  stack' = << [w EXCEPT !.phase = "emit", !.returned = r,
                                 !.log = Append(@, <<"return", w.func, r>>)],
                       EmitFrame("emit", w.event, AfterEmitArgs(w.args), << >>) >>
    /\ UNCHANGED <<_events, exc, gen, ret, raised, done, afterDone, lastRm, ops, hist>>

\* What is kept of a call of the decorated form when it ends.
AfterDoneOf(w, outcome, value) ==
    [kind |-> "after", event |-> w.event, func |-> w.func, args |-> w.args,
     returned |-> w.returned, funcFailed |-> w.funcFailed,
     reentered |-> w.reentered, log |-> w.log, emit |-> w.emit,
     outcome |-> outcome, ret |-> value]

\* self.emit(event) has returned: return returned
AfterReturn ==
    /\ exc = "none" /\ stack # << >> /\ Top.kind = "after"
    /\ stack' = Pop(stack)
    /\ afterDone' = AfterDoneOf(Top, "ok", AfterReturns(Top.returned))
    /\ ret' = [kind |-> "decorated", event |-> Top.event,
               val |-> AfterReturns(Top.returned)]
    /\ UNCHANGED <<_events, exc, gen, raised, done, lastRm, ops, hist>>

\* An exception reaches the wrapper, from func or from self.emit(event).
AfterUnwind ==
    /\ exc # "none" /\ stack # << >> /\ Top.kind = "after"
    /\ IF AfterEmitsOnFailure /\ Top.phase = "func"
       THEN /\ stack' = << [Top EXCEPT !.phase = "emit"],
                           EmitFrame("emit", Top.event,
                                     AfterEmitArgs(Top.args), << >>) >>
            /\ exc' = "none"
            /\ UNCHANGED <<afterDone, raised>>
       ELSE /\ stack' = Pop(stack)
            /\ afterDone' = AfterDoneOf(Top, exc, "None")
            /\ raised' = exc
            /\ exc' = "none"
    /\ UNCHANGED <<_events, gen, ret, done, lastRm, ops, hist>>

\* ------------------------------------------------------------ specification
Next ==
    \/ \E e \in Events, f \in Funcs : On(e, f)
    \/ \E e \in Events, n \in Names : RemoveSubscriber(e, n)
    \/ SubscribedEventCountCall
    \/ \E e \in Events : EventFuncNames(e)
    \/ \E e \in Events : EventFuncs(e)
    \/ GenStep
    \/ \E e \in Events, a \in ArgTuples : Emit(e, a)
    \/ \E e \in Events, n \in FuncNamesInputs, a \in ArgTuples : EmitOnly(e, n, a)
    \/ EmitStep
    \/ EmitReturn
    \/ EmitIterFails
    \/ EmitUnwind
    \/ SubscriberReturn
    \/ UserRaise
    \/ UserUnwind
    \/ \E e \in Events, f \in Decoratable, a \in ArgTuples : Decorated(e, f, a)
    \/ \E r \in Results : FuncReturn(r)
    \/ AfterReturn
    \/ AfterUnwind

Spec == Init /\ [][Next]_vars

\* ------------------------------------------------------------ claims
\* How often a dispatch called func.
Calls(invoked, func) == Cardinality({i \in 1..Len(invoked) : invoked[i].func = func})
\* Every call of a dispatch passed args.
AllPassed(invoked, args) == \A i \in 1..Len(invoked) : invoked[i].args = args
\* A dispatch called each callable of S once and nothing else.
EachOnce(invoked, S) ==
    \A f \in Funcs : Calls(invoked, f) = IF f \in S THEN 1 ELSE 0
NameIn(func, names) == \E i \in 1..Len(names) : names[i] = Name(func)
\* The sum over the event names of the number of callables under each.
SizeSum(ev) ==
    SumOver([e \in Events |-> Cardinality(Members(Membership(ev)[e]))], Events)
SameMembers(a, b) == \A e \in Events : Members(a[e]) = Members(b[e])

\* C1: an emit(e, a) during which no subscriber failed or called the bus has
\* returned normally, having called each callable that was under e when it
\* started exactly once, each with the arguments a, and no other callable.
C1_EmitCallsEachOnceWithArgs ==
    (done.kind = "emit" /\ done.op = "emit" /\ ~done.reentered /\ ~done.failed)
    => /\ done.outcome = "ok"
       /\ EachOnce(done.invoked, Members(done.pre[done.event]))
       /\ AllPassed(done.invoked, done.args)

C1_Witness ==
    /\ done.kind = "emit" /\ done.op = "emit"
    /\ ~done.reentered /\ ~done.failed
    /\ done.args = <<"a">>
    /\ Len(done.invoked) >= 2

\* C2 as stated: f subscribed to e again while registered is registered once,
\* the second subscription changes neither the size of e's set nor event_count,
\* and a later emit(e) calls f once.
C2_Original ==
    /\ \A e \in DOMAIN _events : \A f \in Funcs : _events[e][f] <= 1
    /\ (ret.kind = "on" /\ ret.again)
       => ret.lenAfter = ret.lenBefore /\ ret.countAfter = ret.countBefore
    /\ (done.kind = "emit" /\ done.op = "emit")
       => \A f \in done.twice : Calls(done.invoked, f) = 1

\* C2 amended: as C2, but a later emit(e) calls f at most once, and exactly
\* once when that emit returns normally.
C2_OneRegistration ==
    /\ \A e \in DOMAIN _events : \A f \in Funcs : _events[e][f] <= 1
    /\ \A e \in Events : \A f \in twice[e] : e \in DOMAIN _events /\ _events[e][f] = 1
    /\ (ret.kind = "on" /\ ret.again)
       => ret.lenAfter = ret.lenBefore /\ ret.countAfter = ret.countBefore
    /\ (done.kind = "emit" /\ done.op = "emit")
       => \A f \in done.twice :
            /\ Calls(done.invoked, f) <= 1
            /\ done.outcome = "ok" => Calls(done.invoked, f) = 1

C2_Witness ==
    /\ done.kind = "emit" /\ done.op = "emit" /\ done.outcome = "ok"
    /\ done.twice # {}
    /\ Len(done.invoked) >= 2

\* C3 as stated: emit_only(e, N, a) calls exactly the subscribers of e whose
\* name is in N, each once with a.
C3_Original ==
    (done.kind = "emit" /\ done.op = "emit_only")
    => /\ EachOnce(done.invoked,
                   {f \in Members(done.pre[done.event]) : NameIn(f, done.names)})
       /\ AllPassed(done.invoked, done.args)

\* C3 amended: emit_only(e, N, a) calls no callable that is not a subscriber of
\* e with its name in N, none more than once, each with a; when the call returns
\* normally it has called every subscriber of e whose name is in N.
C3_EmitOnlyCallsTheNamed ==
    (done.kind = "emit" /\ done.op = "emit_only")
    => /\ \A f \in Funcs :
            /\ Calls(done.invoked, f) <= 1
            /\ Calls(done.invoked, f) = 1
               => f \in Members(done.pre[done.event]) /\ NameIn(f, done.names)
       /\ AllPassed(done.invoked, done.args)
       /\ done.outcome = "ok"
          => EachOnce(done.invoked,
                      {f \in Members(done.pre[done.event]) : NameIn(f, done.names)})

C3_Witness ==
    /\ done.kind = "emit" /\ done.op = "emit_only" /\ done.outcome = "ok"
    /\ done.args = <<"a">>
    /\ Len(done.invoked) >= 1
    /\ \E f \in Members(done.pre[done.event]) : ~NameIn(f, done.names)

\* The wrapper's log: func is called first, with the call's arguments, and a
\* subscriber is called only after func has returned.
FuncRunsFirst(a) ==
    /\ a.log[1] = <<"call", a.func, a.args>>
    /\ \A i \in 1..Len(a.log) :
         a.log[i][1] = "invoke"
         => \E j \in 1..(i - 1) : a.log[j] = <<"return", a.func, a.returned>>
\* The subscribers the wrapper's emit called, in the log and in the emit's record.
LoggedCalls(a) == {i \in 1..Len(a.log) : a.log[i][1] = "invoke"}

\* C4 as stated: a call of the decorated form in which g returns has run g
\* first with the call's arguments, then called every subscriber of e once with
\* no arguments, and then returned g's result.
C4_Original ==
    (afterDone.kind = "after" /\ ~afterDone.funcFailed)
    => /\ FuncRunsFirst(afterDone)
       /\ afterDone.emit.kind = "emit"
       /\ EachOnce(afterDone.emit.invoked,
                   Members(afterDone.emit.pre[afterDone.event]))
       /\ AllPassed(afterDone.emit.invoked, NoArgs)
       /\ afterDone.outcome = "ok"
       /\ afterDone.ret = afterDone.returned

\* C4 amended: a call of the decorated form runs g first with the call's
\* arguments and calls a subscriber of e only after g has returned, with no
\* arguments and at most once; when the call returns normally it has called
\* every subscriber of e once and returns g's result.
C4_AfterRunsThenEmits ==
    (afterDone.kind = "after")
    => /\ FuncRunsFirst(afterDone)
       /\ \A i \in LoggedCalls(afterDone) : afterDone.log[i][3] = NoArgs
       /\ afterDone.emit.kind = "emit"
          => /\ afterDone.emit.event = afterDone.event
             /\ AllPassed(afterDone.emit.invoked, NoArgs)
             /\ Len(afterDone.emit.invoked) = Cardinality(LoggedCalls(afterDone))
             /\ \A f \in Funcs : Calls(afterDone.emit.invoked, f) <= 1
       /\ afterDone.outcome = "ok"
          => /\ afterDone.emit.kind = "emit"
             /\ EachOnce(afterDone.emit.invoked,
                         Members(afterDone.emit.pre[afterDone.event]))
             /\ afterDone.ret = afterDone.returned
             /\ afterDone.returned \in Results
             /\ ret.val = afterDone.returned

C4_Witness ==
    /\ afterDone.kind = "after" /\ afterDone.outcome = "ok"
    /\ afterDone.args = <<"a">>
    /\ afterDone.returned = "r2"
    /\ Len(afterDone.emit.invoked) >= 2

\* C5 as stated: an emit(e) that starts after remove_subscriber(e, n) returned,
\* and before a function named n is subscribed to e again, calls no callable
\* named n and calls every other callable registered under e before the removal.
C5_Original ==
    (done.kind = "emit" /\ done.op = "emit")
    => /\ \A i \in 1..Len(done.invoked) : Name(done.invoked[i].func) \notin done.gone
       /\ done.kept.kind = "kept"
          => \A f \in done.kept.others : Calls(done.invoked, f) >= 1

\* C5 amended: such an emit(e) calls no callable named n, and when it returns
\* normally it has called every other callable that was registered under e
\* before the removal and has not been removed since.
C5_RemovedNotCalled ==
    (done.kind = "emit" /\ done.op = "emit")
    => /\ \A i \in 1..Len(done.invoked) : Name(done.invoked[i].func) \notin done.gone
       /\ (done.kept.kind = "kept" /\ done.outcome = "ok")
          => \A f \in done.kept.others : Calls(done.invoked, f) = 1

C5_Witness ==
    /\ done.kind = "emit" /\ done.op = "emit" /\ done.outcome = "ok"
    /\ done.kept.kind = "kept" /\ done.kept.name = "f"
    /\ done.kept.others = {"g1"}
    /\ "f" \in done.gone
    /\ Len(done.invoked) = 1

\* C6: in every reachable state subscribed_event_count() and event_count are
\* the sum, over the event names in the mapping, of the size of each name's
\* set; a call from the main program returns that number.
C6_CountIsSumOfSizes ==
    /\ SubscribedEventCount(_events) = SizeSum(_events)
    /\ EventCount(_events) = SizeSum(_events)
    /\ ret.kind \in {"subscribed_event_count", "event_count"}
       => ret.val = SizeSum(_events)

C6_Witness ==
    /\ ret.kind = "event_count" /\ ret.val = 2
    /\ DOMAIN _events = Events
    /\ \E e \in Events : Members(_events[e]) = {}

\* C7: for an event name never subscribed to, the names reported are none, and
\* an emit on it calls nothing, returns normally and leaves the callables under
\* every event name as they were.
C7_NeverSubscribedIsEmpty ==
    \A e \in Events \ everSubscribed :
       /\ e \in DOMAIN _events => Len_(_events[e]) = 0
       /\ (ret.kind = "event_func_names" /\ ret.event = e) => ret.val = << >>
       /\ (done.kind = "emit" /\ done.op = "emit" /\ done.event = e)
          => /\ done.invoked = << >>
             /\ done.outcome = "ok"
             /\ SameMembers(done.pre, done.post)
       /\ (done.kind = "emit" /\ done.event = e /\ done.depth = 1 /\ stack = << >>)
          => raised = "none"

C7_Witness ==
    /\ done.kind = "emit" /\ done.op = "emit" /\ done.outcome = "ok"
    /\ done.event \notin everSubscribed
    /\ done.event \in DOMAIN _events
    /\ \E e \in Events : Cardinality(Members(done.post[e])) >= 2

\* C8 as stated: when a subscriber fails during emit / emit_only the failure
\* reaches the caller, nothing more is called by that dispatch, and every
\* event's set is as before the call.
C8_Original ==
    (done.kind = "emit" /\ done.failed)
    => /\ done.outcome # "ok"
       /\ Len(done.invoked) = done.failedAt
       /\ SameMembers(done.pre, done.post)

\* C8 amended: ... and every event's set is as before the call unless a
\* callable the dispatch had called changed it by calling the bus.
C8_FailureAbortsDispatch ==
    /\ \A i \in 1..Len(stack) :
         (stack[i].kind = "emit" /\ stack[i].failed)
         => i = Len(stack) /\ exc # "none"
    /\ (done.kind = "emit" /\ done.failed)
       => /\ done.outcome # "ok"
          /\ Len(done.invoked) = done.failedAt
          /\ (done.depth = 1 /\ stack = << >>) => raised = done.outcome
          /\ done.depth > 1 => exc = done.outcome \/ raised = done.outcome
          /\ ~done.reentered => done.post = done.pre

C8_Witness ==
    /\ done.kind = "emit" /\ done.op = "emit_only" /\ done.failed
    /\ ~done.reentered
    /\ raised = "Error"
    /\ Len(done.invoked) = 1
    /\ Cardinality({f \in Members(done.pre[done.event]) :
                       NameIn(f, done.names)}) = 2

\* C9: when the function an emit_after wrapper calls fails, the wrapper does
\* not emit: no subscriber is called and the failure reaches the caller.
C9_FailedFuncNoEmit ==
    /\ \A i \in 1..Len(stack) :
         (stack[i].kind = "after" /\ stack[i].funcFailed)
         => stack[i].phase = "func" /\ i = Len(stack) /\ exc # "none"
    /\ (afterDone.kind = "after" /\ afterDone.funcFailed)
       => /\ afterDone.emit = None
          /\ LoggedCalls(afterDone) = {}
          /\ afterDone.outcome = "Error"
          /\ raised = "Error"

C9_Witness ==
    /\ afterDone.kind = "after" /\ afterDone.funcFailed
    /\ afterDone.event \in DOMAIN _events
    /\ Cardinality(Members(_events[afterDone.event])) >= 2

\* C10: remove_subscriber(e, n) leaves under e no callable named n, however
\* many callables share the name and in whatever order the set is iterated.
C10_RemovesEveryNamed ==
    lastRm.kind = "remove"
    => \A f \in Funcs : Name(f) = lastRm.name => lastRm.after[lastRm.event][f] = 0

C10_Witness ==
    /\ lastRm.kind = "remove" /\ lastRm.name = "f"
    /\ Members(lastRm.before[lastRm.event]) = Funcs
    /\ Members(lastRm.after[lastRm.event]) = {"g1"}

\* The callables under e that are named n.
Named(s, n) == {f \in Members(s) : Name(f) = n}

\* C11: remove_subscriber(e, n) when no callable under e is named n, or when e
\* is no key of the mapping, returns without error and leaves the callables
\* under every event name as they were; when e was no key it is one afterwards,
\* with an empty set.  No call of the bus ever fails on a missing key.
C11_RemoveNoMatchIsNoOp ==
    /\ exc # "KeyError" /\ raised # "KeyError"
    /\ (lastRm.kind = "remove"
        /\ Named(lastRm.before[lastRm.event], lastRm.name) = {})
       => /\ lastRm.after = lastRm.before
          /\ lastRm.stored
    /\ (lastRm.kind = "remove" /\ ~lastRm.seen)
       => /\ lastRm.after = lastRm.before
          /\ lastRm.stored
          /\ lastRm.after[lastRm.event] = EmptySet
          /\ lastRm.event \in DOMAIN _events

C11_Witness ==
    /\ lastRm.kind = "remove" /\ lastRm.name = "g"
    /\ lastRm.seen
    /\ Members(lastRm.before[lastRm.event]) = {"f1", "f2"}
    /\ \E e \in Events : e # lastRm.event /\ Members(lastRm.before[e]) # {}

C11_WitnessNeverSeen ==
    /\ lastRm.kind = "remove" /\ ~lastRm.seen
    /\ lastRm.event \in DOMAIN _events
    /\ \E e \in Events : Members(lastRm.before[e]) # {}

\* C12 as stated: a call of emit, emit_only, event_func_names, remove_subscriber
\* or event_funcs on a name that was no key has made it a key with an empty set
\* by the time the call has returned; for event_funcs, before any next().
C12_Original ==
    /\ (ret.kind \in {"event_func_names", "event_funcs"} /\ ~ret.seen)
       => ret.event \in DOMAIN _events /\ _events[ret.event] = EmptySet
    /\ (done.kind = "emit" /\ ~done.seen)
       => done.event \in DOMAIN _events /\ done.post[done.event] = EmptySet
    /\ (lastRm.kind = "remove" /\ ~lastRm.seen)
       => lastRm.stored /\ lastRm.after[lastRm.event] = EmptySet

\* C12 amended: as C12 for emit, emit_only, event_func_names and
\* remove_subscriber; the call of event_funcs leaves the mapping as it was, and
\* the name becomes a key, with an empty set, at the first next() on the
\* sequence it returned.
C12_ReadsCreateTheKey ==
    /\ (ret.kind = "event_func_names" /\ ~ret.seen)
       => /\ ret.event \in DOMAIN _events /\ _events[ret.event] = EmptySet
          /\ ret.val = << >>
    /\ (done.kind = "emit" /\ ~done.seen)
       => /\ done.event \in DOMAIN _events /\ done.post[done.event] = EmptySet
          /\ done.outcome = "ok" /\ done.invoked = << >>
    /\ (lastRm.kind = "remove" /\ ~lastRm.seen)
       => lastRm.stored /\ lastRm.after[lastRm.event] = EmptySet
    /\ ret.kind = "event_funcs"
       => /\ gen.state = "created" /\ gen.event = ret.event
          /\ ret.event \in DOMAIN _events <=> ret.seen
    /\ ret.kind = "next"
       => /\ ret.event \in DOMAIN _events
          /\ ret.fresh => ret.val = <<"stop", "none">> /\ _events[ret.event] = EmptySet

C12_Witness ==
    /\ ret.kind = "next" /\ ret.fresh
    /\ ret.event \in DOMAIN _events
    /\ \E e \in Events : e \in DOMAIN _events /\ Members(_events[e]) # {}

\* C13: on(e)(f) raises event_count by exactly 1 when f is not registered
\* under e (and leaves it when f is), remove_subscriber(e, n) lowers it by
\* exactly the number of callables under e named n, and no other step of the
\* program changes it: event_count is always the number these rules give.
C13_CountChangesExactly ==
    /\ EventCount(_events) = counted
    /\ SubscribedEventCount(_events) = counted
    /\ ret.kind \in {"subscribed_event_count", "event_count"}
       => ret.val = counted

C13_Witness ==
    /\ lastRm.kind = "remove" /\ lastRm.name = "f"
    /\ Cardinality(Named(lastRm.before[lastRm.event], "f")) = 2
    /\ SizeSum(lastRm.before) = 3
    /\ EventCount(_events) = 1

\* The calls of op on the dispatch's own event made while it was in progress.
CallsDuring(d, op) ==
    {i \in 1..Len(d.calls) : d.calls[i].op = op /\ d.calls[i].event = d.event}
\* The names removed from the dispatch's event while it was in progress.
RemovedDuring(d) == {d.calls[i].arg : i \in CallsDuring(d, "remove_subscriber")}
\* The callables of s whose name is not in names.
NotNamed(s, names) == {f \in Members(s) : Name(f) \notin names}

C15_Original ==
    (ret.kind = "next" /\ ret.val[1] = "yield")
    => ret.val[2] \in Members(_events[ret.event])

\* C15 amended: the sequence goes over the set as it is under e at the first
\* next(), so that a subscription or removal made between the call and the
\* first next() shows; a remove_subscriber on e made later does not show, the
\* sequence still yields each callable of that set once and then stops; and a
\* next() raises only when a callable was subscribed to e after the first one.
C15_SequenceStartsAtFirstNext ==
    ret.kind = "next"
    => /\ ret.started => ret.first = Membership(_events)[ret.event]
       /\ ret.val[1] = "yield"
          => ret.val[2] \in Members(ret.first) /\ ret.had[ret.val[2]] = 0
       /\ ret.val[1] = "stop" => ret.had = ret.first
       /\ ret.val[1] = "raise" => ret.val[2] = "RuntimeError" /\ ret.added

\* g1 was removed from under e after the first next(), and is yielded.
C15_Witness ==
    /\ ret.kind = "next" /\ ret.val = <<"yield", "g1">>
    /\ Members(ret.had) = {"f1"}
    /\ Members(_events[ret.event]) = {"f1"}
    /\ "g" \in removed[ret.event]

\* f1 was subscribed to e after event_funcs(e) returned, and is yielded.
C15_WitnessBeforeFirst ==
    /\ ret.kind = "next" /\ ret.started /\ ret.val = <<"yield", "f1">>
    /\ ops = 2

\* The emits on another event made while the dispatch was in progress.
NestedEmits(d) ==
    {i \in 1..Len(d.calls) : d.calls[i].op = "emit" /\ d.calls[i].event # d.event}
\* A callable runs only while the dispatch that called it is in progress, and
\* is the last one that dispatch has called.
RunsInsideItsDispatch ==
    \A i \in 2..Len(stack) :
       (stack[i].kind = "user" /\ stack[i - 1].kind = "emit")
       => /\ stack[i - 1].invoked # << >>
          /\ stack[i - 1].invoked[Len(stack[i - 1].invoked)].func = stack[i].func

\* C16: an emit(e2) made by a subscriber that emit(e1) called, e2 # e1, has
\* ended before emit(e1) ends and before emit(e1) calls its next subscriber;
\* it has called every subscriber of e2 once by then, unless one of them
\* failed, and then emit(e1) calls no further subscriber either.  A callable
\* runs only while the dispatch that called it is in progress.
C16_NestedEmitRunsToCompletion ==
    /\ RunsInsideItsDispatch
    /\ done.kind = "emit"
       => \A i \in NestedEmits(done) :
            /\ done.calls[i].ended
            /\ done.calls[i].until = done.calls[i].at
            /\ \A f \in Funcs : Calls(done.calls[i].result.invoked, f) <= 1
            /\ done.calls[i].result.outcome = "ok"
               => EachOnce(done.calls[i].result.invoked,
                           Members(done.calls[i].result.were))
            /\ done.calls[i].result.outcome # "ok"
               => Len(done.invoked) = done.calls[i].at /\ done.outcome # "ok"

C16_Witness ==
    /\ done.kind = "emit" /\ done.outcome = "ok" /\ done.depth = 1
    /\ \E i \in NestedEmits(done) :
         /\ done.calls[i].ended /\ done.calls[i].at = 1
         /\ done.calls[i].result.outcome = "ok"
         /\ Len(done.calls[i].result.invoked) = 1

\* func_names is the str s, or the list [s].
GivenOne(d, s) ==
    \/ d.given.isStr /\ d.given.str = s
    \/ ~d.given.isStr /\ d.given.list = <<s>>

\* C17: emit_only(e, s) with a str s and emit_only(e, [s]) test the names
\* against the same one-element list [s]: either calls only callables whose
\* name is s itself, never one whose name is a part of s, and when it returns
\* normally it has called each callable under e named s once.
C17_StrIsOneName ==
    (done.kind = "emit" /\ done.op = "emit_only")
    => \A s \in {"f", "gf"} :
         GivenOne(done, s)
         => /\ done.names = <<s>>
            /\ \A i \in 1..Len(done.invoked) : Name(done.invoked[i].func) = s
            /\ done.outcome = "ok"
               => EachOnce(done.invoked, Named(done.pre[done.event], s))

\* emit_only(e, "gf") with f1 and g1 under e calls neither.
C17_Witness ==
    /\ done.kind = "emit" /\ done.op = "emit_only" /\ done.outcome = "ok"
    /\ done.given.isStr /\ done.given.str = "gf"
    /\ Members(done.pre[done.event]) = {"f1", "g1"}
    /\ done.invoked = << >>

\* emit_only(e, "f") and emit_only(e, ["f"]) each call f1 and f2, not g1.
C17_WitnessSame ==
    /\ done.kind = "emit" /\ done.op = "emit_only" /\ done.outcome = "ok"
    /\ GivenOne(done, "f") /\ ~done.given.isStr
    /\ Members(done.pre[done.event]) = {"f1", "g1"}
    /\ Len(done.invoked) = 1

\* The reads of the main program.
Reads == {"event_func_names", "event_funcs", "next",
          "subscribed_event_count", "event_count"}

\* C18: an emit or emit_only during which no callable called the bus, however
\* it ended, and a call of event_func_names, event_funcs (and a next() on its
\* sequence), subscribed_event_count or event_count leave the callables under
\* every event name as they were, and with them the count; on the mapping they
\* do no more than add the name they were given, with an empty set.
C18_ReadsKeepRegistrations ==
    /\ (done.kind = "emit" /\ ~done.reentered)
       => /\ done.post = done.pre
          /\ SizeSum(done.post) = SizeSum(done.pre)
          /\ done.keysPost = done.keys \cup {done.event}
    /\ ret.kind \in Reads
       => /\ Membership(_events) = ret.pre
          /\ SubscribedEventCount(_events) = SizeSum(ret.pre)
          /\ DOMAIN _events \in {ret.keys, ret.keys \cup {ret.event}}
          /\ \A k \in DOMAIN _events \ ret.keys : _events[k] = EmptySet
          /\ ret.kind \in {"subscribed_event_count", "event_count", "event_funcs"}
             => DOMAIN _events = ret.keys

C18_Witness ==
    /\ ret.kind = "event_func_names" /\ ~ret.seen
    /\ DOMAIN _events # ret.keys
    /\ SizeSum(ret.pre) = 3

C18_WitnessDispatch ==
    /\ done.kind = "emit" /\ done.op = "emit_only" /\ ~done.reentered
    /\ done.failed /\ Len(done.invoked) = 1
    /\ SizeSum(done.pre) = 2

\* Every callable a dispatch has called was under the dispatch's event when the
\* dispatch started.
CalledOwn(d) ==
    \A i \in 1..Len(d.invoked) : d.invoked[i].func \in Members(d.pre[d.event])

\* C19: on(e)(f) and remove_subscriber(e, n) change what is under e only, so
\* that the callables under each name are those put there by on and not taken
\* away by a remove_subscriber on that same name; and a dispatch on e calls no
\* callable that was not under e when it started.
C19_EventsAreIsolated ==
    /\ \A e \in Events : Members(Membership(_events)[e]) = registered[e]
    /\ lastRm.kind = "remove"
       => \A e \in Events \ {lastRm.event} : lastRm.after[e] = lastRm.before[e]
    /\ \A i \in 1..Len(stack) : stack[i].kind = "emit" => CalledOwn(stack[i])
    /\ done.kind = "emit" => CalledOwn(done)

\* A callable named f was under x and f1 under y; remove_subscriber("x", "f")
\* has emptied x and left f1 under y, and emit("y") calls it.
C19_Witness ==
    /\ done.kind = "emit" /\ done.event = "y" /\ done.outcome = "ok"
    /\ everSubscribed = Events
    /\ "f" \in removed["x"] /\ registered["x"] = {}
    /\ done.invoked # << >> /\ done.invoked[1].func = "f1"
    /\ "f" \notin removed["y"]

\* A remove_subscriber on the dispatch's event was made before its i-th call.
ReplacedBefore(d, i) == \E j \in CallsDuring(d, "remove_subscriber") : j < i
\* A remove_subscriber of the name of func was made after its i-th call.
RemovedAfter(d, i, func) ==
    \E j \in CallsDuring(d, "remove_subscriber") :
       j > i /\ d.calls[j].arg = Name(func)
\* The calls of on that subscribed to the dispatch's event a callable not under it.
NewDuring(d) == {i \in CallsDuring(d, "on") : d.calls[i].new}

\* C20 as stated: an emit(e) during which a callable it called subscribed to e
\* a callable not under e ends with an error, having called no callable after
\* the one that subscribed, and the new callable is under e (unless removed
\* again); one during which callables only subscribed again what was under e
\* is not disturbed.
C20_Original ==
    (done.kind = "emit" /\ done.op = "emit")
    => /\ \A i \in NewDuring(done) :
            /\ done.outcome # "ok"
            /\ Len(done.invoked) = done.calls[i].at
            /\ ~RemovedAfter(done, i, done.calls[i].arg)
               => done.calls[i].arg \in Members(done.post[done.event])
       /\ (CallsDuring(done, "on") # {} /\ NewDuring(done) = {} /\ ~done.failed)
          => done.outcome = "ok"

\* C20 amended: ... provided no remove_subscriber on e was made earlier during
\* that emit: then the emit ends with an error (the set iterator's, unless a
\* callable failed first).  After such a remove_subscriber the emit iterates
\* the set that was replaced, and a subscription to e does not disturb it.
C20_SubscribeDuringEmitAborts ==
    (done.kind = "emit" /\ done.op = "emit")
    => /\ \A i \in NewDuring(done) :
            /\ ~ReplacedBefore(done, i)
               => /\ done.outcome # "ok"
                  /\ Len(done.invoked) = done.calls[i].at
                  /\ ~done.failed => done.outcome = "RuntimeError"
            /\ ~RemovedAfter(done, i, done.calls[i].arg)
               => done.calls[i].arg \in Members(done.post[done.event])
       /\ (CallsDuring(done, "on") # {} /\ ~done.failed
           /\ \A i \in NewDuring(done) : ReplacedBefore(done, i))
          => /\ done.outcome = "ok"
             /\ EachOnce(done.invoked, Members(done.pre[done.event]))

\* f1 and f2 are under e; the first one called subscribes g1 to e, and the
\* emit ends with the iterator's error without calling the other.
C20_Witness ==
    /\ done.kind = "emit" /\ done.op = "emit"
    /\ done.outcome = "RuntimeError" /\ ~done.failed
    /\ Members(done.pre[done.event]) = {"f1", "f2"}
    /\ Len(done.invoked) = 1
    /\ \E i \in NewDuring(done) : done.calls[i].arg = "g1" /\ done.calls[i].at = 1
    /\ Members(done.post[done.event]) = Funcs
====
